---- MODULE Spec2Model ----
(***************************************************************************)
(* Environment upsert workflow of mu (workflows/environment_upsert.go).    *)
(*                                                                         *)
(* A Go string is modelled as a sequence of one-character strings, so that *)
(* strings.HasSuffix, strings.EqualFold, strings.Join, strconv.Itoa and    *)
(* fmt.Sprintf are computed and not assumed.  The fixed text of a format   *)
(* string is kept as one element (Lit); the data formatted into it is      *)
(* character by character.  A Go map[string]string is a function whose     *)
(* domain is the set of keys present; a nil-able pointer is a sequence of  *)
(* length 0 (nil) or 1.                                                    *)
(***************************************************************************)
EXTENDS Integers, Sequences, FiniteSets, TLC

VARIABLES
    config,                 \* ctx.Config: [Namespace, Environments, Repo]
    environmentName,        \* per invocation: the name given to NewEnvironmentUpserter
    environment,            \* per invocation: workflow.environment (<<>> is nil)
    cloudFormationRoleArn,  \* per invocation: workflow.cloudFormationRoleArn
    ecsStackParams,         \* per invocation: the compute-layer parameter map
    elbStackParams,         \* per invocation: the load-balancer-layer parameter map
    next,                   \* per invocation: index of the next executor of the pipeline
    done,                   \* per invocation: the pipeline executor has returned
    ret,                    \* per invocation: the error the pipeline executor returned
    ran                     \* per invocation: the executors run so far, in order, each
                            \* with the error it returned and the collaborator calls it made

vars == <<config, environmentName, environment, cloudFormationRoleArn,
          ecsStackParams, elbStackParams, next, done, ret, ran>>

-----------------------------------------------------------------------------
(* Bounds of the model.                                                    *)

\* longest configured environment list
MaxEnvs == 2
\* largest availability-zone count the AZ counter reports
MaxAZ == 2

-----------------------------------------------------------------------------
(* Strings.                                                                *)

\* the fixed text of a format string, kept as one element
Lit(text) == <<text>>

\* strings.HasSuffix(s, suffix)
HasSuffix(s, suffix) ==
    /\ Len(s) >= Len(suffix)
    /\ SubSeq(s, Len(s) - Len(suffix) + 1, Len(s)) = suffix

\* strings.Contains(s, sub), used to read error messages
Contains(s, sub) ==
    \E k \in 0..(Len(s) - Len(sub)) : SubSeq(s, k + 1, k + Len(sub)) = sub

\* simple case folding of the letters the model's names are written in
FoldChar(c) ==
    CASE c = "D" -> "d"
      [] c = "E" -> "e"
      [] c = "V" -> "v"
      [] c = "Q" -> "q"
      [] c = "A" -> "a"
      [] c = "S" -> "s"
      [] OTHER -> c

\* strings.EqualFold(s, t)
EqualFold(s, t) ==
    /\ Len(s) = Len(t)
    /\ \A k \in 1..Len(s) : FoldChar(s[k]) = FoldChar(t[k])

\* strings.Join(elems, ",")
RECURSIVE JoinComma(_)
JoinComma(elems) ==
    IF Len(elems) = 0 THEN <<>>
    ELSE IF Len(elems) = 1 THEN elems[1]
    ELSE elems[1] \o <<",">> \o JoinComma(Tail(elems))

Digit(d) ==
    CASE d = 0 -> "0" [] d = 1 -> "1" [] d = 2 -> "2" [] d = 3 -> "3"
      [] d = 4 -> "4" [] d = 5 -> "5" [] d = 6 -> "6" [] d = 7 -> "7"
      [] d = 8 -> "8" [] d = 9 -> "9"

\* strconv.Itoa(n), also fmt's %v of an int
RECURSIVE Itoa(_)
Itoa(n) ==
    IF n < 0 THEN <<"-">> \o Itoa(0 - n)
    ELSE IF n < 10 THEN <<Digit(n)>>
    ELSE Itoa(n \div 10) \o <<Digit(n % 10)>>

\* strconv.FormatBool(b)
FormatBool(b) == IF b THEN <<"t", "r", "u", "e">> ELSE <<"f", "a", "l", "s", "e">>

-----------------------------------------------------------------------------
(* Maps.                                                                   *)

EmptyMap == [k \in {} |-> <<>>]

\* m[k] = v
Put(m, k, v) == [x \in (DOMAIN m) \cup {k} |-> IF x = k THEN v ELSE m[x]]

\* m[k] read: the zero value "" when k is absent
Get(m, k) == IF k \in DOMAIN m THEN m[k] ELSE <<>>

-----------------------------------------------------------------------------
(* Errors.                                                                 *)

NoError == [class |-> "nil", msg |-> <<>>]

\* fmt.Errorf(...)
Errorf(msg) == [class |-> "error", msg |-> msg]

\* common.Warningf(...)
Warningf(msg) == [class |-> "warning", msg |-> msg]

\* the error a failing collaborator call returns, one per operation
CollabError(op) == [class |-> "error", msg |-> <<"collaborator failure", op>>]

-----------------------------------------------------------------------------
(* Program constants.                                                      *)

\* common.EnvProviderEcs, common.EnvProviderEcsFargate, common.EnvProviderEc2
EnvProviderEcs == <<"e", "c", "s">>
EnvProviderEcsFargate == <<"e", "c", "s", "-", "f", "a", "r", "g", "a", "t", "e">>
EnvProviderEc2 == <<"e", "c", "2">>

\* common.StackTypeVpc, StackTypeTarget, StackTypeLoadBalancer, StackTypeEnv
StackTypeVpc == <<"v", "p", "c">>
StackTypeTarget == <<"t", "a", "r", "g", "e", "t">>
StackTypeLoadBalancer == <<"l", "o", "a", "d", "b", "a", "l", "a", "n", "c", "e", "r">>
StackTypeEnv == <<"e", "n", "v", "i", "r", "o", "n", "m", "e", "n", "t">>

\* the image patterns, kept whole: the workflow only hands them to the image finder
ecsImagePattern == Lit("amzn-ami-*-amazon-ecs-optimized")
ec2ImagePattern == Lit("amzn-ami-hvm-*-x86_64-gp2")

\* common.CreateStackName(namespace, stackType, name)
CreateStackName(namespace, stackType, name) ==
    namespace \o <<"-">> \o stackType \o <<"-">> \o name

-----------------------------------------------------------------------------
(* Inputs: the configurations and the requested names.                     *)

Consul == <<"c", "o", "n", "s", "u", "l">>

\* an environment with every optional field unset
BaseEnv(name) ==
    [Name |-> name,
     Provider |-> <<>>,
     Discovery |-> [Provider |-> <<>>, Name |-> <<>>],
     VpcTarget |-> [Environment |-> <<>>, Namespace |-> <<>>, VpcID |-> <<>>,
                    ElbSubnetIds |-> <<>>, InstanceSubnetIds |-> <<>>],
     Cluster |-> [InstanceTenancy |-> <<>>, SSHAllow |-> <<>>, KeyName |-> <<>>,
                  InstanceType |-> <<>>, ExtraUserData |-> <<>>, ImageID |-> <<>>,
                  ImageOsType |-> <<>>, DesiredCapacity |-> 0, MinSize |-> 0,
                  MaxSize |-> 0, TargetCPUReservation |-> 0,
                  TargetMemoryReservation |-> 0, HTTPProxy |-> <<>>],
     Loadbalancer |-> [Certificate |-> <<>>, HostedZone |-> <<>>, Name |-> <<>>,
                       Internal |-> FALSE]]

\* managed network, provider unset, everything defaulted
EnvDev == BaseEnv(<<"d", "e", "v">>)

\* managed network with a bastion, Fargate, every optional field set
EnvDevFull ==
    [BaseEnv(<<"D", "e", "v">>) EXCEPT
        !.Provider = EnvProviderEcsFargate,
        !.Cluster = [InstanceTenancy |-> <<"d", "e", "d">>,
                     SSHAllow |-> <<"1", "0", ".", "0", "/", "8">>,
                     KeyName |-> <<"k", "e", "y">>,
                     InstanceType |-> <<"t", "2">>,
                     ExtraUserData |-> <<"u", "d">>,
                     ImageID |-> <<"a", "m", "i", "-", "9">>,
                     ImageOsType |-> <<"w", "i", "n">>,
                     DesiredCapacity |-> 2, MinSize |-> 1, MaxSize |-> 12,
                     TargetCPUReservation |-> 75, TargetMemoryReservation |-> 80,
                     HTTPProxy |-> <<"p", "x">>],
        !.Loadbalancer = [Certificate |-> <<"c", "r", "t">>, HostedZone |-> <<"z", ".", "i", "o">>,
                          Name |-> <<>>, Internal |-> TRUE]]

\* borrows the network of environment "dev" of the same namespace, plain EC2
EnvQa ==
    [BaseEnv(<<"q", "a">>) EXCEPT
        !.Provider = EnvProviderEc2,
        !.VpcTarget.Environment = <<"d", "e", "v">>,
        !.Discovery.Name = <<"s", "d">>,
        !.Loadbalancer.HostedZone = <<"z", ".", "i", "o">>,
        !.Loadbalancer.Name = <<"w", "w", "w">>]

\* borrows a network of another namespace; the network attributes are set too
EnvQaOther ==
    [BaseEnv(<<"Q", "A">>) EXCEPT
        !.Provider = EnvProviderEcs,
        !.VpcTarget.Environment = <<"d", "e", "v">>,
        !.VpcTarget.Namespace = <<"n", "s">>,
        !.VpcTarget.VpcID = <<"v", "-", "7">>]

\* the network is supplied by its attributes
EnvTgt ==
    [BaseEnv(<<"t", "g", "t">>) EXCEPT
        !.VpcTarget.VpcID = <<"v", "-", "1">>,
        !.VpcTarget.ElbSubnetIds = << <<"s", "1">>, <<"s", "2">> >>,
        !.VpcTarget.InstanceSubnetIds = << <<"s", "3">> >>,
        !.Cluster.KeyName = <<"k", "e", "y">>]

\* the removed service-discovery provider
EnvCon == [BaseEnv(<<"c", "o", "n">>) EXCEPT !.Discovery.Provider = Consul]

\* a provider that is none of the three known ones
EnvOdd == [BaseEnv(<<"o", "d", "d">>) EXCEPT !.Provider = <<"x">>]

EnvPresets == {EnvDev, EnvDevFull, EnvQa, EnvQaOther, EnvTgt, EnvCon, EnvOdd}

\* the names an invocation may be asked for; the last one matches no preset
RequestedNames ==
    { <<"D", "E", "V">>, <<"q", "a">>, <<"t", "g", "t">>, <<"c", "o", "n">>,
      <<"o", "d", "d">>, <<"n", "o", "p">> }

\* the environment lists of at most MaxEnvs environments
EnvLists == UNION { [1..n -> EnvPresets] : n \in 0..MaxEnvs }

Configs ==
    { [Namespace |-> <<"m", "u">>,
       Environments |-> l,
       Repo |-> [Revision |-> <<"a", "b", "c">>, Slug |-> <<"o", "/", "r">>]] :
      l \in EnvLists }

-----------------------------------------------------------------------------
(* The pipeline.                                                           *)

\* Stages with the roleset executor handed over twice
StagesRolesetTwice ==
    << "environmentFinder", "environmentRolesetUpserter", "environmentRolesetUpserter",
       "environmentVpcUpserter", "environmentElbUpserter", "environmentUpserter" >>

\* Stages with the load-balancer executor handed over before the network one
StagesElbFirst ==
    << "environmentFinder", "environmentRolesetUpserter", "environmentElbUpserter",
       "environmentVpcUpserter", "environmentUpserter" >>

\* the executors NewEnvironmentUpserter hands to newPipelineExecutor, in order
Stages ==
    << "environmentFinder", "environmentRolesetUpserter", "environmentVpcUpserter",
       "environmentElbUpserter", "environmentUpserter" >>

\* invocation i is about to run the executor called name
AtStage(i, name) ==
    /\ ~done[i]
    /\ next[i] \in 1..Len(Stages)
    /\ Stages[next[i]] = name

\* newPipelineExecutor: the executor called name has returned err; stop at the
\* first error, go on to the next executor otherwise, return nil after the last
PipelineStep(i, name, err, made) ==
    /\ ran' = [ran EXCEPT ![i] = Append(@, [stage |-> name, err |-> err, calls |-> made])]
    /\ IF err # NoError
       THEN /\ done' = [done EXCEPT ![i] = TRUE]
            /\ ret' = [ret EXCEPT ![i] = err]
            /\ next' = next
       ELSE /\ next' = [next EXCEPT ![i] = @ + 1]
            /\ done' = [done EXCEPT ![i] = (next[i] + 1 > Len(Stages))]
            /\ ret' = ret

\* NewEnvironmentUpserter: a new workflow and two new, empty parameter maps for
\* each invocation in ids, over one configuration
InitWith(ids, configs, names) ==
    /\ config \in configs
    /\ environmentName \in [ids -> names]
    /\ environment = [i \in ids |-> <<>>]
    /\ cloudFormationRoleArn = [i \in ids |-> <<>>]
    /\ ecsStackParams = [i \in ids |-> EmptyMap]
    /\ elbStackParams = [i \in ids |-> EmptyMap]
    /\ next = [i \in ids |-> 1]
    /\ done = [i \in ids |-> FALSE]
    /\ ret = [i \in ids |-> NoError]
    /\ ran = [i \in ids |-> <<>>]

InitOf(ids) == InitWith(ids, Configs, RequestedNames)

Invocations == DOMAIN next

-----------------------------------------------------------------------------
(* environmentFinder                                                       *)

\* FinderConsulError as a warning
FinderConsulWarning ==
    Warningf(Lit("Consul is no longer supported as a service discovery provider.  Check out the mu-consul extension for an alternative: https://github.com/stelligent/mu-consul"))

\* the error for the removed service-discovery provider
FinderConsulError ==
    Errorf(Lit("Consul is no longer supported as a service discovery provider.  Check out the mu-consul extension for an alternative: https://github.com/stelligent/mu-consul"))

\* FinderNotFound as a hard error instead of a warning
FinderNotFoundHard(name) ==
    Errorf(Lit("Unable to find environment named '") \o name \o Lit("' in configuration"))

\* the error for a name that no environment of the configuration has
FinderNotFound(name) ==
    Warningf(Lit("Unable to find environment named '") \o name \o Lit("' in configuration"))

\* FinderMatch without the defaulting of an empty provider
FinderMatchNoDefault(e) ==
    [environment |-> <<e>>,
     err |-> IF e.Discovery.Provider = Consul THEN FinderConsulError ELSE NoError]

\* the body of the loop for the matching element e: e is the loop's copy of it
FinderMatch(e) ==
    LET d == IF e.Provider = <<>> THEN [e EXCEPT !.Provider = EnvProviderEcs] ELSE e
    IN  [environment |-> <<d>>,
         err |-> IF d.Discovery.Provider = Consul THEN FinderConsulError ELSE NoError]

\* the loop over config.Environments from index k on; prev is workflow.environment
RECURSIVE FinderLoop(_, _, _, _)
FinderLoop(envs, name, k, prev) ==
    IF k > Len(envs)
    THEN [environment |-> prev, err |-> FinderNotFound(name)]
    ELSE IF EqualFold(envs[k].Name, name)
         THEN FinderMatch(envs[k])
         ELSE FinderLoop(envs, name, k + 1, prev)

\* StoreEnvironment for one workflow record shared by every invocation
StoreEnvironmentShared(i, e) == [j \in DOMAIN environment |-> e]

\* workflow.environment = &e, on the workflow record of invocation i
StoreEnvironment(i, e) == [environment EXCEPT ![i] = e]

RunEnvironmentFinder(i) ==
    /\ AtStage(i, "environmentFinder")
    /\ LET r == FinderLoop(config.Environments, environmentName[i], 1, environment[i])
       IN  /\ environment' = StoreEnvironment(i, r.environment)
           /\ PipelineStep(i, "environmentFinder", r.err, <<>>)
    /\ UNCHANGED <<config, environmentName, cloudFormationRoleArn,
                   ecsStackParams, elbStackParams>>

-----------------------------------------------------------------------------
(* The collaborators' replies.  A call is logged as [op, args, out].       *)

Call(op, args, out) == [op |-> op, args |-> args, out |-> out]

\* an error-returning call: nil or an error
ErrorReplies(op) == {NoError, CollabError(op)}

\* GetCommonRoleset, GetEnvironmentRoleset: an error or one of the rolesets
RolesetReplies(op, rolesets) ==
    {[err |-> CollabError(op), roleset |-> EmptyMap]} \cup
    {[err |-> NoError, roleset |-> m] : m \in rolesets}

\* the common roleset: with the administrative role, or without it
CommonRolesetReplies ==
    RolesetReplies("GetCommonRoleset",
        {EmptyMap, Put(EmptyMap, "CloudFormationRoleArn", <<"a", "r", "n", ":", "c", "f">>)})

\* the environment's roleset
EnvironmentRolesetReplies ==
    RolesetReplies("GetEnvironmentRoleset",
        {Put(EmptyMap, "EC2InstanceProfileArn", <<"a", "r", "n", ":", "i", "p">>)})

-----------------------------------------------------------------------------
(* environmentRolesetUpserter                                              *)

\* The closure's run for the workflow state (env, role, ecs) and the replies
\* uc, gc, ue, ge of its four calls: the error it returns, the state it
\* leaves and the calls it made.
\* RolesetCallFailed that lets every error pass
RolesetCallFailedIgnored(err) == FALSE

\* if err != nil, after each of the four roleset calls
RolesetCallFailed(err) == err # NoError

\* CommonRoleArn read from the instance-profile entry
CommonRoleArnWrongKey(commonRoleset) == Get(commonRoleset, "EC2InstanceProfileArn")

\* commonRoleset["CloudFormationRoleArn"]
CommonRoleArn(commonRoleset) == Get(commonRoleset, "CloudFormationRoleArn")

RolesetUpserter(env, role, ecs, uc, gc, ue, ge) ==
    LET name == env[1].Name
        c1 == <<Call("UpsertCommonRoleset", <<>>, uc)>>
        c2 == c1 \o <<Call("GetCommonRoleset", <<>>, gc)>>
        role2 == CommonRoleArn(gc.roleset)
        c3 == c2 \o <<Call("UpsertEnvironmentRoleset", <<name>>, ue)>>
        c4 == c3 \o <<Call("GetEnvironmentRoleset", <<name>>, ge)>>
    IN  IF RolesetCallFailed(uc)
        THEN [err |-> uc, role |-> role, ecs |-> ecs, calls |-> c1]
        ELSE IF RolesetCallFailed(gc.err)
        THEN [err |-> gc.err, role |-> role, ecs |-> ecs, calls |-> c2]
        ELSE IF RolesetCallFailed(ue)
        THEN [err |-> ue, role |-> role2, ecs |-> ecs, calls |-> c3]
        ELSE IF RolesetCallFailed(ge.err)
        THEN [err |-> ge.err, role |-> role2, ecs |-> ecs, calls |-> c4]
        ELSE [err |-> NoError, role |-> role2,
              ecs |-> Put(ecs, "EC2InstanceProfileArn",
                          Get(ge.roleset, "EC2InstanceProfileArn")),
              calls |-> c4]

RunEnvironmentRolesetUpserter(i) ==
    /\ AtStage(i, "environmentRolesetUpserter")
    /\ \E r \in { RolesetUpserter(environment[i], cloudFormationRoleArn[i],
                                   ecsStackParams[i], uc, gc, ue, ge) :
                      uc \in ErrorReplies("UpsertCommonRoleset"),
                      gc \in CommonRolesetReplies,
                      ue \in ErrorReplies("UpsertEnvironmentRoleset"),
                      ge \in EnvironmentRolesetReplies } :
              /\ cloudFormationRoleArn' = [cloudFormationRoleArn EXCEPT ![i] = r.role]
              /\ ecsStackParams' = [ecsStackParams EXCEPT ![i] = r.ecs]
              /\ PipelineStep(i, "environmentRolesetUpserter", r.err, r.calls)
    /\ UNCHANGED <<config, environmentName, environment, elbStackParams>>

-----------------------------------------------------------------------------
(* Stack statuses and the stack manager's replies.                         *)

CREATE_COMPLETE == <<"C", "R", "E", "A", "T", "E", "_", "C", "O", "M", "P", "L", "E", "T", "E">>
UPDATE_COMPLETE == <<"U", "P", "D", "A", "T", "E", "_", "C", "O", "M", "P", "L", "E", "T", "E">>
ROLLBACK_COMPLETE ==
    <<"R", "O", "L", "L", "B", "A", "C", "K", "_", "C", "O", "M", "P", "L", "E", "T", "E">>
UPDATE_ROLLBACK_COMPLETE == <<"U", "P", "D", "A", "T", "E", "_">> \o ROLLBACK_COMPLETE
CREATE_IN_PROGRESS ==
    <<"C", "R", "E", "A", "T", "E", "_", "I", "N", "_", "P", "R", "O", "G", "R", "E", "S", "S">>
CREATE_FAILED == <<"C", "R", "E", "A", "T", "E", "_", "F", "A", "I", "L", "E", "D">>

\* the suffixes the workflow looks for
SuffixComplete == <<"_", "C", "O", "M", "P", "L", "E", "T", "E">>
SuffixRollbackComplete == ROLLBACK_COMPLETE

Statuses ==
    { CREATE_COMPLETE, UPDATE_COMPLETE, ROLLBACK_COMPLETE, UPDATE_ROLLBACK_COMPLETE,
      CREATE_IN_PROGRESS, CREATE_FAILED }

StatusReason == <<"w", "h", "y">>

\* AwaitFinalStatus: nil, or a stack with a status, a reason and outputs
StackReplies(outputs) ==
    {<<>>} \cup
    { <<[Status |-> s, StatusReason |-> StatusReason, Outputs |-> o]>> :
        s \in Statuses, o \in outputs }

\* FindLatestImageID: an error or an image id
ImageReplies ==
    { [err |-> CollabError("FindLatestImageID"), id |-> <<>>],
      [err |-> NoError, id |-> <<"a", "m", "i", "-", "1">>] }

\* CountAZs: an error or a count
AZReplies ==
    {[err |-> CollabError("CountAZs"), count |-> 0]} \cup
    {[err |-> NoError, count |-> n] : n \in 0..MaxAZ}

\* the EnvironmentTags handed to createTagMap
EnvironmentTags(env, type, repo) ==
    [Environment |-> env.Name, Type |-> type, Provider |-> env.Provider,
     Revision |-> repo.Revision, Repo |-> repo.Slug]

\* the arguments of an UpsertStack call
UpsertArgs(name, template, env, params, tags, role) ==
    [name |-> name, template |-> template, environment |-> env.Name,
     params |-> params, tags |-> tags, role |-> role]

\* the error for a stack that could not be tracked
UnableToCreate(stackName) == Errorf(Lit("Unable to create stack ") \o stackName)

\* EndedInFailedStatus without the status reason
EndedInFailedStatusNoReason(stack) ==
    Errorf(Lit("Ended in failed status ") \o stack.Status)

\* the error for a stack that ended in a failed status
EndedInFailedStatus(stack) ==
    Errorf(Lit("Ended in failed status ") \o stack.Status \o Lit(" ") \o stack.StatusReason)

-----------------------------------------------------------------------------
(* environmentVpcUpserter                                                  *)

\* the branch taken: the first condition that holds decides
VpcBranch(env) ==
    IF env.VpcTarget.Environment # <<>> THEN "borrowed"
    ELSE IF env.VpcTarget.VpcID # <<>> THEN "target"
    ELSE "managed"

\* VpcStackName computed from the current environment's name in every branch
VpcStackNameOwn(namespace, env) ==
    CreateStackName(namespace, StackTypeVpc, env.Name)

\* vpcStackName
VpcStackName(namespace, env) ==
    CASE VpcBranch(env) = "borrowed" ->
            LET targetNamespace == IF env.VpcTarget.Namespace = <<>>
                                   THEN namespace ELSE env.VpcTarget.Namespace
            IN  CreateStackName(targetNamespace, StackTypeVpc, env.VpcTarget.Environment)
      [] VpcBranch(env) = "target" ->
            CreateStackName(namespace, StackTypeTarget, env.Name)
      [] OTHER ->
            CreateStackName(namespace, StackTypeVpc, env.Name)

\* vpcTemplateName; "" when no template is owed
VpcTemplateName(env) ==
    CASE VpcBranch(env) = "borrowed" -> <<>>
      [] VpcBranch(env) = "target" -> Lit("vpc-target.yml")
      [] OTHER -> Lit("vpc.yml")

\* the managed branch looks up a bastion image when a key name is configured
VpcNeedsImage(env) == VpcBranch(env) = "managed" /\ env.Cluster.KeyName # <<>>

\* vpcStackParams as the branches leave it; imageId is the image finder's answer
VpcBranchParams(env, imageId) ==
    CASE VpcBranch(env) = "borrowed" -> EmptyMap
      [] VpcBranch(env) = "target" ->
            LET p1 == Put(EmptyMap, "VpcId", env.VpcTarget.VpcID)
                p2 == Put(p1, "ElbSubnetIds", JoinComma(env.VpcTarget.ElbSubnetIds))
            IN  Put(p2, "InstanceSubnetIds", JoinComma(env.VpcTarget.InstanceSubnetIds))
      [] OTHER ->
            LET p1 == IF env.Cluster.InstanceTenancy # <<>>
                      THEN Put(EmptyMap, "InstanceTenancy", env.Cluster.InstanceTenancy)
                      ELSE EmptyMap
                p2 == IF env.Cluster.SSHAllow # <<>>
                      THEN Put(p1, "SshAllow", env.Cluster.SSHAllow)
                      ELSE Put(p1, "SshAllow", <<"0", ".", "0", ".", "0", ".", "0", "/", "0">>)
                p3 == IF env.Cluster.KeyName # <<>>
                      THEN Put(Put(p2, "BastionKeyName", env.Cluster.KeyName),
                               "BastionImageId", imageId)
                      ELSE p2
            IN  Put(p3, "ElbInternal", FormatBool(env.Loadbalancer.Internal))

\* VpcTooFewAZs with the threshold one too low
VpcTooFewAZsBelowOne(azCount) == azCount < 1

\* the availability-zone check
VpcTooFewAZs(azCount) == azCount < 2

\* the error of the availability-zone check
VpcAZError(azCount) ==
    Errorf(Lit("Only found ") \o Itoa(azCount) \o Lit(" availability zones...need at least 2"))

\* VpcStackParams without the AZCount entry
VpcStackParamsNoAZCount(env, imageId, azCount) == VpcBranchParams(env, imageId)

\* vpcStackParams as handed to UpsertStack
VpcStackParams(env, imageId, azCount) ==
    Put(VpcBranchParams(env, imageId), "AZCount", Itoa(azCount))

\* VpcStatusFailed that takes every terminal status for a success
VpcStatusFailedNever(status) == FALSE

\* the network stage's reading of a terminal status
VpcStatusFailed(status) ==
    HasSuffix(status, SuffixRollbackComplete) \/ ~HasSuffix(status, SuffixComplete)

\* the references published into the compute-layer map
VpcPublishEcs(ecs, vpcStackName) ==
    Put(Put(ecs, "VpcId", vpcStackName \o Lit("-VpcId")),
        "InstanceSubnetIds", vpcStackName \o Lit("-InstanceSubnetIds"))

\* VpcPublishElb without the load-balancer subnets
VpcPublishElbNoSubnets(elb, vpcStackName) ==
    Put(elb, "VpcId", vpcStackName \o Lit("-VpcId"))

\* the references published into the load-balancer-layer map
VpcPublishElb(elb, vpcStackName) ==
    Put(Put(elb, "VpcId", vpcStackName \o Lit("-VpcId")),
        "ElbSubnetIds", vpcStackName \o Lit("-ElbSubnetIds"))

\* VpcFailure with the references published before the failing step
VpcFailurePublished(err, ecs, elb, vpcStackName, c) ==
    [err |-> err, ecs |-> VpcPublishEcs(ecs, vpcStackName),
     elb |-> VpcPublishElb(elb, vpcStackName), calls |-> c]

\* an early return of the closure with err: both maps are as they were
VpcFailure(err, ecs, elb, vpcStackName, c) ==
    [err |-> err, ecs |-> ecs, elb |-> elb, calls |-> c]

\* The closure's run for the workflow state and the replies img, az, up, aw of
\* its calls: the error it returns, the maps it leaves and the calls it made.
VpcUpserter(namespace, repo, env, role, ecs, elb, img, az, up, aw) ==
    LET e == env[1]
        vpcStackName == VpcStackName(namespace, e)
        vpcTemplateName == VpcTemplateName(e)
        c1 == IF VpcNeedsImage(e)
              THEN <<Call("FindLatestImageID", <<ec2ImagePattern>>, img)>>
              ELSE <<>>
        c2 == c1 \o <<Call("CountAZs", <<>>, az)>>
        params == VpcStackParams(e, img.id, az.count)
        tags == EnvironmentTags(e, StackTypeVpc, repo)
        c3 == c2 \o <<Call("UpsertStack",
                           UpsertArgs(vpcStackName, vpcTemplateName, e, params, tags, role),
                           up)>>
        c4 == c3 \o <<Call("AwaitFinalStatus", <<vpcStackName>>, aw)>>
        fail(err, c) == VpcFailure(err, ecs, elb, vpcStackName, c)
        publish(c) == [err |-> NoError, ecs |-> VpcPublishEcs(ecs, vpcStackName),
                       elb |-> VpcPublishElb(elb, vpcStackName), calls |-> c]
    IN  IF VpcNeedsImage(e) /\ img.err # NoError THEN fail(img.err, c1)
        ELSE IF az.err # NoError THEN fail(az.err, c2)
        ELSE IF VpcTooFewAZs(az.count) THEN fail(VpcAZError(az.count), c2)
        ELSE IF vpcTemplateName = <<>> THEN publish(c2)
        ELSE IF up # NoError THEN fail(up, c3)
        ELSE IF aw = <<>> THEN fail(UnableToCreate(vpcStackName), c4)
        ELSE IF VpcStatusFailed(aw[1].Status) THEN fail(EndedInFailedStatus(aw[1]), c4)
        ELSE publish(c4)

\* the outputs of a network stack
VpcOutputs == {Put(EmptyMap, "VpcId", <<"v", "-", "0">>)}

RunEnvironmentVpcUpserter(i) ==
    /\ AtStage(i, "environmentVpcUpserter")
    /\ \E r \in { VpcUpserter(config.Namespace, config.Repo, environment[i],
                               cloudFormationRoleArn[i], ecsStackParams[i],
                               elbStackParams[i], img, az, up, aw) :
                      img \in ImageReplies, az \in AZReplies,
                      up \in ErrorReplies("UpsertStack"),
                      aw \in StackReplies(VpcOutputs) } :
              /\ ecsStackParams' = [ecsStackParams EXCEPT ![i] = r.ecs]
              /\ elbStackParams' = [elbStackParams EXCEPT ![i] = r.elb]
              /\ PipelineStep(i, "environmentVpcUpserter", r.err, r.calls)
    /\ UNCHANGED <<config, environmentName, environment, cloudFormationRoleArn>>

-----------------------------------------------------------------------------
(* environmentElbUpserter                                                  *)

\* stackParams, which is elbStackParams itself, after the stage's writes
ElbStackParams(namespace, env, elb) ==
    LET p1 == IF env.Loadbalancer.Certificate # <<>>
              THEN Put(elb, "ElbCert", env.Loadbalancer.Certificate)
              ELSE elb
        p2 == IF env.Loadbalancer.HostedZone # <<>>
              THEN Put(Put(p1, "ElbDomainName", env.Loadbalancer.HostedZone),
                       "ElbHostName",
                       IF env.Loadbalancer.Name = <<>>
                       THEN env.Name ELSE env.Loadbalancer.Name)
              ELSE p1
        p3 == IF env.Discovery.Name = <<>>
              THEN Put(p2, "ServiceDiscoveryName",
                       env.Name \o Lit(".") \o namespace \o Lit(".local"))
              ELSE Put(p2, "ServiceDiscoveryName", env.Discovery.Name)
    IN  Put(p3, "ElbInternal", FormatBool(env.Loadbalancer.Internal))

\* the load-balancer stage's reading of a terminal status
ElbStatusFailed(status) ==
    HasSuffix(status, SuffixRollbackComplete) \/ ~HasSuffix(status, SuffixComplete)

\* ElbSecurityGroup as a symbolic reference to the load-balancer stack's output
ElbSecurityGroupSymbolic(envStackName, stack) ==
    envStackName \o Lit("-ElbInstanceSecurityGroup")

\* the value published as the compute layer's ElbSecurityGroup
ElbSecurityGroup(envStackName, stack) == Get(stack.Outputs, "ElbInstanceSecurityGroup")

\* The closure's run for the workflow state and the replies up, aw of its calls.
ElbUpserter(namespace, repo, env, role, ecs, elb, up, aw) ==
    LET e == env[1]
        envStackName == CreateStackName(namespace, StackTypeLoadBalancer, e.Name)
        stackParams == ElbStackParams(namespace, e, elb)
        tags == EnvironmentTags(e, StackTypeLoadBalancer, repo)
        c1 == <<Call("UpsertStack",
                     UpsertArgs(envStackName, Lit("elb.yml"), e, stackParams, tags, role),
                     up)>>
        c2 == c1 \o <<Call("AwaitFinalStatus", <<envStackName>>, aw)>>
        fail(err, c) == [err |-> err, ecs |-> ecs, elb |-> stackParams, calls |-> c]
    IN  IF up # NoError THEN fail(up, c1)
        ELSE IF aw = <<>> THEN fail(UnableToCreate(envStackName), c2)
        ELSE IF ElbStatusFailed(aw[1].Status) THEN fail(EndedInFailedStatus(aw[1]), c2)
        ELSE [err |-> NoError,
              ecs |-> Put(ecs, "ElbSecurityGroup", ElbSecurityGroup(envStackName, aw[1])),
              elb |-> stackParams, calls |-> c2]

\* the outputs of a load-balancer stack
ElbOutputs == {Put(EmptyMap, "ElbInstanceSecurityGroup", <<"s", "g", "-", "1">>)}

RunEnvironmentElbUpserter(i) ==
    /\ AtStage(i, "environmentElbUpserter")
    /\ \E r \in { ElbUpserter(config.Namespace, config.Repo, environment[i],
                               cloudFormationRoleArn[i], ecsStackParams[i],
                               elbStackParams[i], up, aw) :
                      up \in ErrorReplies("UpsertStack"),
                      aw \in StackReplies(ElbOutputs) } :
              /\ ecsStackParams' = [ecsStackParams EXCEPT ![i] = r.ecs]
              /\ elbStackParams' = [elbStackParams EXCEPT ![i] = r.elb]
              /\ PipelineStep(i, "environmentElbUpserter", r.err, r.calls)
    /\ UNCHANGED <<config, environmentName, environment, cloudFormationRoleArn>>

-----------------------------------------------------------------------------
(* environmentUpserter                                                     *)

\* EnvMapping with the Fargate entry's launch type copied from the ECS entry
EnvMappingFargateAsEc2(provider) ==
    CASE provider = EnvProviderEcs ->
            [templateName |-> Lit("env-ecs.yml"), imagePattern |-> ecsImagePattern,
             launchType |-> <<"E", "C", "2">>]
      [] provider = EnvProviderEcsFargate ->
            [templateName |-> Lit("env-ecs.yml"), imagePattern |-> ecsImagePattern,
             launchType |-> <<"E", "C", "2">>]
      [] provider = EnvProviderEc2 ->
            [templateName |-> Lit("env-ec2.yml"), imagePattern |-> ec2ImagePattern,
             launchType |-> <<>>]
      [] OTHER ->
            [templateName |-> <<>>, imagePattern |-> <<>>, launchType |-> <<>>]

\* EnvMapping that falls back to the ECS entry for a provider it does not hold
EnvMappingDefaultEcs(provider) ==
    CASE provider = EnvProviderEcsFargate ->
            [templateName |-> Lit("env-ecs.yml"), imagePattern |-> ecsImagePattern,
             launchType |-> <<"F", "A", "R", "G", "A", "T", "E">>]
      [] provider = EnvProviderEc2 ->
            [templateName |-> Lit("env-ec2.yml"), imagePattern |-> ec2ImagePattern,
             launchType |-> <<>>]
      [] OTHER ->
            [templateName |-> Lit("env-ecs.yml"), imagePattern |-> ecsImagePattern,
             launchType |-> <<"E", "C", "2">>]

\* envMapping[provider]: a provider the table does not hold reads as ""
EnvMapping(provider) ==
    CASE provider = EnvProviderEcs ->
            [templateName |-> Lit("env-ecs.yml"), imagePattern |-> ecsImagePattern,
             launchType |-> <<"E", "C", "2">>]
      [] provider = EnvProviderEcsFargate ->
            [templateName |-> Lit("env-ecs.yml"), imagePattern |-> ecsImagePattern,
             launchType |-> <<"F", "A", "R", "G", "A", "T", "E">>]
      [] provider = EnvProviderEc2 ->
            [templateName |-> Lit("env-ec2.yml"), imagePattern |-> ec2ImagePattern,
             launchType |-> <<>>]
      [] OTHER ->
            [templateName |-> <<>>, imagePattern |-> <<>>, launchType |-> <<>>]

\* a parameter written only when the configured string is not empty
PutIfSet(m, k, v) == IF v # <<>> THEN Put(m, k, v) ELSE m

\* a parameter written only when the configured number is not zero
PutIfNonZero(m, k, n) == IF n # 0 THEN Put(m, k, Itoa(n)) ELSE m

\* EnvNeedsImage with the test inverted
EnvNeedsImageInverted(env) == env.Cluster.ImageID # <<>>

\* the compute stage needs an image lookup when no image id is configured
EnvNeedsImage(env) == env.Cluster.ImageID = <<>>

\* stackParams, which is ecsStackParams itself, up to and including ImageId
EnvParamsToImage(env, ecs, imageId) ==
    LET p1 == Put(ecs, "LaunchType", EnvMapping(env.Provider).launchType)
        p2 == IF env.Cluster.SSHAllow # <<>>
              THEN Put(p1, "SshAllow", env.Cluster.SSHAllow)
              ELSE Put(p1, "SshAllow", <<"0", ".", "0", ".", "0", ".", "0", "/", "0">>)
        p3 == PutIfSet(p2, "InstanceType", env.Cluster.InstanceType)
        p4 == PutIfSet(p3, "ExtraUserData", env.Cluster.ExtraUserData)
    IN  IF EnvNeedsImage(env)
        THEN Put(p4, "ImageId", imageId)
        ELSE Put(p4, "ImageId", env.Cluster.ImageID)

\* stackParams after the writes that follow ImageId
EnvParamsRest(env, p) ==
    LET p1 == PutIfSet(p, "ImageOsType", env.Cluster.ImageOsType)
        p2 == PutIfNonZero(p1, "DesiredCapacity", env.Cluster.DesiredCapacity)
        p3 == PutIfNonZero(p2, "MinSize", env.Cluster.MinSize)
        p4 == PutIfNonZero(p3, "MaxSize", env.Cluster.MaxSize)
        p5 == PutIfSet(p4, "KeyName", env.Cluster.KeyName)
        p6 == PutIfNonZero(p5, "TargetCPUReservation", env.Cluster.TargetCPUReservation)
        p7 == PutIfNonZero(p6, "TargetMemoryReservation",
                           env.Cluster.TargetMemoryReservation)
    IN  PutIfSet(p7, "HttpProxy", env.Cluster.HTTPProxy)

\* EnvStatusFailed without the rollback suffix check
EnvStatusFailedNoRollback(status) == ~HasSuffix(status, SuffixComplete)

\* the compute stage's reading of a terminal status
EnvStatusFailed(status) ==
    HasSuffix(status, SuffixRollbackComplete) \/ ~HasSuffix(status, SuffixComplete)

\* The closure's run for the workflow state and the replies img, up, aw of its calls.
EnvUpserter(namespace, repo, env, role, ecs, img, up, aw) ==
    LET e == env[1]
        envStackName == CreateStackName(namespace, StackTypeEnv, e.Name)
        templateName == EnvMapping(e.Provider).templateName
        imagePattern == EnvMapping(e.Provider).imagePattern
        c1 == IF EnvNeedsImage(e)
              THEN <<Call("FindLatestImageID", <<imagePattern>>, img)>>
              ELSE <<>>
        params1 == EnvParamsToImage(e, ecs, img.id)
        stackParams == EnvParamsRest(e, params1)
        tags == EnvironmentTags(e, StackTypeEnv, repo)
        c2 == c1 \o <<Call("UpsertStack",
                           UpsertArgs(envStackName, templateName, e, stackParams, tags, role),
                           up)>>
        c3 == c2 \o <<Call("AwaitFinalStatus", <<envStackName>>, aw)>>
    IN  IF EnvNeedsImage(e) /\ img.err # NoError
        THEN [err |-> img.err, ecs |-> params1, calls |-> c1]
        ELSE IF up # NoError THEN [err |-> up, ecs |-> stackParams, calls |-> c2]
        ELSE IF aw = <<>>
        THEN [err |-> UnableToCreate(envStackName), ecs |-> stackParams, calls |-> c3]
        ELSE IF EnvStatusFailed(aw[1].Status)
        THEN [err |-> EndedInFailedStatus(aw[1]), ecs |-> stackParams, calls |-> c3]
        ELSE [err |-> NoError, ecs |-> stackParams, calls |-> c3]

\* the outputs of a compute stack
EnvOutputs == {Put(EmptyMap, "EcsCluster", <<"c", "-", "0">>)}

RunEnvironmentUpserter(i) ==
    /\ AtStage(i, "environmentUpserter")
    /\ \E r \in { EnvUpserter(config.Namespace, config.Repo, environment[i],
                               cloudFormationRoleArn[i], ecsStackParams[i], img, up, aw) :
                      img \in ImageReplies, up \in ErrorReplies("UpsertStack"),
                      aw \in StackReplies(EnvOutputs) } :
              /\ ecsStackParams' = [ecsStackParams EXCEPT ![i] = r.ecs]
              /\ PipelineStep(i, "environmentUpserter", r.err, r.calls)
    /\ UNCHANGED <<config, environmentName, environment, cloudFormationRoleArn,
                   elbStackParams>>

-----------------------------------------------------------------------------
(* The specification: one invocation of the pipeline.                      *)

Init == InitOf({1})

Next ==
    \/ \E i \in Invocations : RunEnvironmentFinder(i)
    \/ \E i \in Invocations : RunEnvironmentRolesetUpserter(i)
    \/ \E i \in Invocations : RunEnvironmentVpcUpserter(i)
    \/ \E i \in Invocations : RunEnvironmentElbUpserter(i)
    \/ \E i \in Invocations : RunEnvironmentUpserter(i)

Spec == Init /\ [][Next]_vars

-----------------------------------------------------------------------------
(* Reading the history.                                                    *)

\* the five executors in the order the workflow is to run them
FixedOrder ==
    << "environmentFinder", "environmentRolesetUpserter", "environmentVpcUpserter",
       "environmentElbUpserter", "environmentUpserter" >>

\* the stages that submit a stack
StackStages == {"environmentVpcUpserter", "environmentElbUpserter", "environmentUpserter"}

\* the collaborator calls of a sequence of history entries, in order
RECURSIVE CallsOfEntries(_)
CallsOfEntries(entries) ==
    IF entries = <<>> THEN <<>>
    ELSE Head(entries).calls \o CallsOfEntries(Tail(entries))

\* the collaborator calls invocation i has made so far
CallsMade(i) == CallsOfEntries(ran[i])

\* the history entries of invocation i
Entries(i) == {ran[i][k] : k \in 1..Len(ran[i])}

\* the calls of operation op in a sequence of calls
CallsOf(cs, op) == {cs[k] : k \in {j \in 1..Len(cs) : cs[j].op = op}}

\* a status string the classifier is to accept
ClassifiedSuccess(status) ==
    HasSuffix(status, SuffixComplete) /\ ~HasSuffix(status, SuffixRollbackComplete)

\* some environment of the configuration has the name, letter case aside
SomeEntryMatches(name) ==
    \E k \in 1..Len(config.Environments) : EqualFold(config.Environments[k].Name, name)

-----------------------------------------------------------------------------
(* C1 *)

\* C1: the pipeline runs the five stages in the fixed order Environment
\* Resolver, Roleset, Network, Load-Balancer, Compute; no stage runs after one
\* that returned an error; the pipeline returns the error of the first stage
\* that fails, and returns nil only after all five stages returned nil.
C1_PipelineOrder ==
    \A i \in Invocations :
        LET n == Len(ran[i])
        IN  /\ n <= Len(FixedOrder)
            /\ \A k \in 1..n : ran[i][k].stage = FixedOrder[k]
            /\ \A k \in 1..(n - 1) : ran[i][k].err = NoError
            /\ done[i] <=> (n > 0 /\ (ran[i][n].err # NoError \/ n = Len(FixedOrder)))
            /\ done[i] => ret[i] = ran[i][n].err
            /\ (done[i] /\ ret[i] = NoError) =>
                   /\ n = Len(FixedOrder)
                   /\ \A k \in 1..n : ran[i][k].err = NoError

\* an invocation that stopped at the network stage with that stage's error
C1_Witness ==
    \E i \in Invocations :
        /\ done[i]
        /\ Len(ran[i]) = 3
        /\ ret[i] # NoError
        /\ ret[i] = ran[i][3].err

-----------------------------------------------------------------------------
(* C2 *)

\* C2: in the Network, Load-Balancer and Compute stages a stage that awaited its
\* stack returns nil if and only if the outcome is present and its status ends
\* with "_COMPLETE" and not with "ROLLBACK_COMPLETE": CREATE_COMPLETE succeeds,
\* ROLLBACK_COMPLETE, UPDATE_ROLLBACK_COMPLETE and CREATE_IN_PROGRESS fail, an
\* absent outcome fails, and the three stages read every status the same way.
C2_Classifier ==
    /\ \A i \in Invocations : \A e \in Entries(i) :
          (e.stage \in StackStages /\ e.calls # <<>>
             /\ e.calls[Len(e.calls)].op = "AwaitFinalStatus") =>
               LET out == e.calls[Len(e.calls)].out
               IN  /\ e.err = NoError <=> (out # <<>> /\ ClassifiedSuccess(out[1].Status))
                   /\ (out # <<>> /\ out[1].Status = CREATE_COMPLETE) => e.err = NoError
                   /\ (out # <<>> /\ out[1].Status \in
                          {ROLLBACK_COMPLETE, UPDATE_ROLLBACK_COMPLETE, CREATE_IN_PROGRESS})
                        => e.err # NoError
                   /\ out = <<>> => e.err # NoError
    /\ \A s \in Statuses :
          /\ VpcStatusFailed(s) = ElbStatusFailed(s)
          /\ ElbStatusFailed(s) = EnvStatusFailed(s)

\* the compute stage failed on a stack that ended UPDATE_ROLLBACK_COMPLETE
C2_Witness ==
    \E i \in Invocations : \E e \in Entries(i) :
        /\ e.stage = "environmentUpserter"
        /\ e.calls[Len(e.calls)].op = "AwaitFinalStatus"
        /\ e.calls[Len(e.calls)].out # <<>>
        /\ e.calls[Len(e.calls)].out[1].Status = UPDATE_ROLLBACK_COMPLETE
        /\ e.err # NoError

-----------------------------------------------------------------------------
(* C3 *)

\* C3: when the requested name matches no environment of the configured list,
\* letter case aside, the Environment Resolver fails with a Warning-class error
\* that carries the requested name, and the invocation runs no later stage and
\* issues no collaborator call.
C3_NotFoundWarning ==
    \A i \in Invocations :
        (ran[i] # <<>> /\ ~SomeEntryMatches(environmentName[i])) =>
            /\ done[i]
            /\ ret[i].class = "warning"
            /\ Contains(ret[i].msg, environmentName[i])
            /\ Len(ran[i]) = 1
            /\ ran[i][1].stage = "environmentFinder"
            /\ CallsMade(i) = <<>>
            /\ environment[i] = <<>>

\* the resolver ran over a list of two environments and matched neither
C3_Witness ==
    \E i \in Invocations :
        /\ Len(config.Environments) = 2
        /\ ~SomeEntryMatches(environmentName[i])
        /\ done[i]
        /\ ret[i].class = "warning"

-----------------------------------------------------------------------------
(* C4 *)

\* the UpsertStack call of the layer with tag type in a sequence of calls came
\* before index k and the stack it named was then awaited, before k, to a
\* status the classifier is to accept
AwaitedBefore(cs, k, type) ==
    \E j \in 2..(k - 1) :
        /\ cs[j].op = "AwaitFinalStatus"
        /\ cs[j - 1].op = "UpsertStack"
        /\ cs[j - 1].args.tags.Type = type
        /\ cs[j - 1].args.name = cs[j].args[1]
        /\ cs[j].out # <<>>
        /\ ClassifiedSuccess(cs[j].out[1].Status)

\* C4: no stage starts before the previous one returned nil; the Load-Balancer
\* UpsertStack is submitted only after the Network stage returned nil (its
\* stack, when a template was owed, awaited to a successful status); the
\* Compute UpsertStack is submitted only after the Load-Balancer stack was
\* awaited to a successful status; and AwaitFinalStatus for a stack is called
\* only right after UpsertStack for that same stack returned nil.
C4_StageOrdering ==
    \A i \in Invocations :
        LET cs == CallsMade(i)
        IN  /\ \A k \in 2..Len(ran[i]) : ran[i][k - 1].err = NoError
            /\ \A k \in 1..Len(cs) :
                  /\ cs[k].op = "AwaitFinalStatus" =>
                        /\ k > 1
                        /\ cs[k - 1].op = "UpsertStack"
                        /\ cs[k - 1].args.name = cs[k].args[1]
                        /\ cs[k - 1].out = NoError
                  /\ (cs[k].op = "UpsertStack"
                        /\ cs[k].args.tags.Type = StackTypeLoadBalancer) =>
                        /\ \E e \in Entries(i) :
                              e.stage = "environmentVpcUpserter" /\ e.err = NoError
                        /\ environment[i][1].VpcTarget.Environment = <<>> =>
                              AwaitedBefore(cs, k, StackTypeVpc)
                  /\ (cs[k].op = "UpsertStack" /\ cs[k].args.tags.Type = StackTypeEnv) =>
                        AwaitedBefore(cs, k, StackTypeLoadBalancer)

\* the compute stack was submitted by an invocation that owed a network template
C4_Witness ==
    \E i \in Invocations :
        /\ environment[i] # <<>>
        /\ environment[i][1].VpcTarget.Environment = <<>>
        /\ \E c \in CallsOf(CallsMade(i), "UpsertStack") : c.args.tags.Type = StackTypeEnv

-----------------------------------------------------------------------------
(* C5 *)

\* the resolved environment of invocation i takes the attribute-supplied branch
AttributeSupplied(i) ==
    /\ environment[i] # <<>>
    /\ environment[i][1].VpcTarget.Environment = <<>>
    /\ environment[i][1].VpcTarget.VpcID # <<>>

\* the three parameters of the attribute-supplied branch
SuppliedParams(env) ==
    Put(Put(Put(EmptyMap, "VpcId", env.VpcTarget.VpcID),
            "ElbSubnetIds", JoinComma(env.VpcTarget.ElbSubnetIds)),
        "InstanceSubnetIds", JoinComma(env.VpcTarget.InstanceSubnetIds))

\* the UpsertStack calls of the network stage of invocation i, each with the
\* availability-zone count the stage had fetched
NetworkUpserts(i) ==
    { [call |-> c, az |-> a.out.count] :
        c \in {u \in CallsOf(CallsMade(i), "UpsertStack") : u.args.tags.Type = StackTypeVpc},
        a \in CallsOf(CallsMade(i), "CountAZs") }

\* C5 as claimed: in the attribute-supplied branch the parameter map handed to
\* UpsertStack is exactly {VpcId, ElbSubnetIds, InstanceSubnetIds}, with no
\* AZ-count parameter.
C5_Original ==
    \A i \in Invocations : \A u \in NetworkUpserts(i) :
        AttributeSupplied(i) => u.call.args.params = SuppliedParams(environment[i][1])

\* C5 (amended): in the attribute-supplied branch the parameter map handed to
\* UpsertStack holds VpcId = the supplied id, ElbSubnetIds and InstanceSubnetIds
\* = the supplied lists joined with commas, and AZCount = the fetched
\* availability-zone count in decimal, and nothing else.
C5_TargetParams ==
    \A i \in Invocations : \A u \in NetworkUpserts(i) :
        AttributeSupplied(i) =>
            /\ u.call.args.params =
                   Put(SuppliedParams(environment[i][1]), "AZCount", Itoa(u.az))
            /\ DOMAIN u.call.args.params =
                   {"VpcId", "ElbSubnetIds", "InstanceSubnetIds", "AZCount"}
            /\ u.call.args.template = Lit("vpc-target.yml")
            /\ environment[i][1].VpcTarget.ElbSubnetIds = << <<"s", "1">>, <<"s", "2">> >> =>
                   u.call.args.params["ElbSubnetIds"] = <<"s", "1", ",", "s", "2">>

\* the network stack of an attribute-supplied environment was submitted
C5_Witness ==
    \E i \in Invocations :
        /\ AttributeSupplied(i)
        /\ NetworkUpserts(i) # {}

-----------------------------------------------------------------------------
(* C6 *)

\* the load-balancer stack's name for invocation i
ElbStackNameOf(i) ==
    CreateStackName(config.Namespace, StackTypeLoadBalancer, environment[i][1].Name)

\* s begins with prefix and goes on after it
HasProperPrefix(s, prefix) ==
    /\ Len(s) > Len(prefix)
    /\ SubSeq(s, 1, Len(prefix)) = prefix

\* the values found in the outputs of the stacks invocation i has awaited
AwaitedOutputValues(i) ==
    UNION { {c.out[1].Outputs[k] : k \in DOMAIN c.out[1].Outputs} :
              c \in {a \in CallsOf(CallsMade(i), "AwaitFinalStatus") : a.out # <<>>} }

\* the outcome of the load-balancer stack invocation i awaited
ElbOutcomes(i) ==
    { e.calls[Len(e.calls)].out[1] :
        e \in {x \in Entries(i) : x.stage = "environmentElbUpserter" /\ x.err = NoError} }

\* the text that follows the stack name in a reference to the output key
RefSuffix(key) ==
    CASE key = "VpcId" -> "-VpcId"
      [] key = "InstanceSubnetIds" -> "-InstanceSubnetIds"
      [] key = "ElbSubnetIds" -> "-ElbSubnetIds"

\* C6 as claimed: the compute layer's ElbSecurityGroup is a symbolic reference
\* "<load-balancer stack name>-<output key>", not a value read from the awaited
\* stack's outputs.
C6_Original ==
    \A i \in Invocations :
        "ElbSecurityGroup" \in DOMAIN ecsStackParams[i] =>
            /\ HasProperPrefix(ecsStackParams[i]["ElbSecurityGroup"], ElbStackNameOf(i))
            /\ ecsStackParams[i]["ElbSecurityGroup"] \notin AwaitedOutputValues(i)

\* C6 (amended): the values the Network stage publishes (VpcId and
\* InstanceSubnetIds of the compute layer, VpcId and ElbSubnetIds of the
\* load-balancer layer) are symbolic references "<stack-name>-<output-key>" and
\* never a value of an awaited stack's outputs; the compute layer's
\* ElbSecurityGroup is the value the Load-Balancer stage read from the awaited
\* stack's output ElbInstanceSecurityGroup.
C6_References ==
    \A i \in Invocations :
        /\ \A k \in {"VpcId", "InstanceSubnetIds"} \cap DOMAIN ecsStackParams[i] :
              /\ ecsStackParams[i][k] =
                     VpcStackName(config.Namespace, environment[i][1]) \o Lit(RefSuffix(k))
              /\ ecsStackParams[i][k] \notin AwaitedOutputValues(i)
        /\ \A k \in {"VpcId", "ElbSubnetIds"} \cap DOMAIN elbStackParams[i] :
              /\ elbStackParams[i][k] =
                     VpcStackName(config.Namespace, environment[i][1]) \o Lit(RefSuffix(k))
              /\ elbStackParams[i][k] \notin AwaitedOutputValues(i)
        /\ "ElbSecurityGroup" \in DOMAIN ecsStackParams[i] =>
              /\ ElbOutcomes(i) # {}
              /\ \A st \in ElbOutcomes(i) :
                    ecsStackParams[i]["ElbSecurityGroup"] =
                        Get(st.Outputs, "ElbInstanceSecurityGroup")
        /\ ElbOutcomes(i) # {} => "ElbSecurityGroup" \in DOMAIN ecsStackParams[i]

\* the Load-Balancer stage has returned nil and published the security group
C6_Witness ==
    \E i \in Invocations :
        /\ ElbOutcomes(i) # {}
        /\ "ElbSecurityGroup" \in DOMAIN ecsStackParams[i]
        /\ "VpcId" \in DOMAIN ecsStackParams[i]

-----------------------------------------------------------------------------
(* C7 *)

\* the resolved environment of invocation i borrows another environment's network
Borrowed(i) ==
    /\ environment[i] # <<>>
    /\ environment[i][1].VpcTarget.Environment # <<>>

\* the name of the network stack a borrowing environment refers to
BorrowedStackName(i) ==
    LET t == environment[i][1].VpcTarget
    IN  CreateStackName(IF t.Namespace = <<>> THEN config.Namespace ELSE t.Namespace,
                        StackTypeVpc, t.Environment)

\* C7: in the borrowed-network branch the Network stage issues no UpsertStack
\* and no AwaitFinalStatus, and once it has returned nil the compute-layer map
\* holds VpcId and InstanceSubnetIds and the load-balancer-layer map holds VpcId
\* and ElbSubnetIds, each "<S>-<OutputKey>" with S the stack name of the target
\* namespace (the workflow's when none is given), the network stack type and
\* the target environment's name.
C7_BorrowedNetwork ==
    \A i \in Invocations : \A e \in Entries(i) :
        (e.stage = "environmentVpcUpserter" /\ Borrowed(i)) =>
            /\ CallsOf(e.calls, "UpsertStack") = {}
            /\ CallsOf(e.calls, "AwaitFinalStatus") = {}
            /\ e.err = NoError =>
                  /\ ecsStackParams[i]["VpcId"] = BorrowedStackName(i) \o Lit("-VpcId")
                  /\ ecsStackParams[i]["InstanceSubnetIds"] =
                         BorrowedStackName(i) \o Lit("-InstanceSubnetIds")
                  /\ elbStackParams[i]["VpcId"] = BorrowedStackName(i) \o Lit("-VpcId")
                  /\ elbStackParams[i]["ElbSubnetIds"] =
                         BorrowedStackName(i) \o Lit("-ElbSubnetIds")

\* the Network stage returned nil for an environment that borrows the network
\* of an environment of another namespace and of another name than its own
C7_Witness ==
    \E i \in Invocations : \E e \in Entries(i) :
        /\ e.stage = "environmentVpcUpserter"
        /\ e.err = NoError
        /\ Borrowed(i)
        /\ environment[i][1].VpcTarget.Namespace # <<>>
        /\ environment[i][1].VpcTarget.Namespace # config.Namespace
        /\ ~EqualFold(environment[i][1].VpcTarget.Environment, environment[i][1].Name)
        /\ ecsStackParams[i]["VpcId"] =
               <<"n", "s", "-", "v", "p", "c", "-", "d", "e", "v", "-VpcId">>

-----------------------------------------------------------------------------
(* C8 *)

\* the decimal text of the counts below two
SmallCountText(n) == IF n = 0 THEN <<"0">> ELSE <<"1">>

\* the image lookup of a history entry failed
ImageLookupFailed(e) ==
    \E c \in CallsOf(e.calls, "FindLatestImageID") : c.out.err # NoError

\* C8: in each of the three Network-stage branches the availability-zone count
\* is fetched; a count below 2 makes the stage fail with an error whose message
\* contains the count, with no UpsertStack submitted and nothing published into
\* the compute- or load-balancer-layer map; a count of 2 or more lets the stage
\* go on (to UpsertStack when a template is owed, to publishing otherwise).
C8_AZCount ==
    \A i \in Invocations : \A e \in Entries(i) :
        e.stage = "environmentVpcUpserter" =>
            /\ ~ImageLookupFailed(e) => Cardinality(CallsOf(e.calls, "CountAZs")) = 1
            /\ \A c \in CallsOf(e.calls, "CountAZs") :
                  /\ (c.out.err = NoError /\ c.out.count < 2) =>
                        /\ e.err.class = "error"
                        /\ Contains(e.err.msg, SmallCountText(c.out.count))
                        /\ done[i] /\ ret[i] = e.err
                        /\ CallsOf(e.calls, "UpsertStack") = {}
                        /\ DOMAIN ecsStackParams[i] \cap {"VpcId", "InstanceSubnetIds"} = {}
                        /\ elbStackParams[i] = EmptyMap
                  /\ (c.out.err = NoError /\ c.out.count >= 2) =>
                        IF Borrowed(i)
                        THEN e.err = NoError /\ "VpcId" \in DOMAIN ecsStackParams[i]
                        ELSE CallsOf(e.calls, "UpsertStack") # {}

\* the Network stage of a borrowing environment failed on a count of one
C8_Witness ==
    \E i \in Invocations : \E e \in Entries(i) :
        /\ e.stage = "environmentVpcUpserter"
        /\ Borrowed(i)
        /\ \E c \in CallsOf(e.calls, "CountAZs") : c.out.err = NoError /\ c.out.count = 1
        /\ e.err # NoError

-----------------------------------------------------------------------------
(* C9 *)

\* the history entries of invocation i that are stack failures: a stack stage
\* that awaited its stack and returned an error
StackFailures(i) ==
    { e \in Entries(i) :
        /\ e.stage \in StackStages
        /\ e.err # NoError
        /\ e.calls # <<>>
        /\ e.calls[Len(e.calls)].op = "AwaitFinalStatus" }

\* C9 as claimed: the message of a stack failure includes the stack name, the
\* status and the status reason.
C9_Original ==
    \A i \in Invocations : \A e \in StackFailures(i) :
        LET a == e.calls[Len(e.calls)]
        IN  /\ done[i] /\ ret[i] = e.err
            /\ Contains(e.err.msg, a.args[1])
            /\ a.out # <<>> =>
                  /\ Contains(e.err.msg, a.out[1].Status)
                  /\ Contains(e.err.msg, a.out[1].StatusReason)

\* C9 (amended): a stack failure in the Network, Load-Balancer or Compute stage
\* halts the pipeline with that stage's error; when the outcome is absent the
\* message includes the stack name, and when the terminal status is not a
\* success the message includes the status and the status reason.
C9_StackFailure ==
    \A i \in Invocations : \A e \in StackFailures(i) :
        LET a == e.calls[Len(e.calls)]
        IN  /\ done[i] /\ ret[i] = e.err
            /\ e.err.class = "error"
            /\ a.out = <<>> => Contains(e.err.msg, a.args[1])
            /\ a.out # <<>> =>
                  /\ Contains(e.err.msg, a.out[1].Status)
                  /\ Contains(e.err.msg, a.out[1].StatusReason)

\* the Load-Balancer stage failed on a stack that ended ROLLBACK_COMPLETE
C9_Witness ==
    \E i \in Invocations : \E e \in StackFailures(i) :
        /\ e.stage = "environmentElbUpserter"
        /\ e.calls[Len(e.calls)].out # <<>>
        /\ e.calls[Len(e.calls)].out[1].Status = ROLLBACK_COMPLETE

-----------------------------------------------------------------------------
(* C10 *)

\* the first environment of the configuration that has the name, letter case aside
FirstMatch(name) ==
    config.Environments[
        CHOOSE k \in 1..Len(config.Environments) :
            /\ EqualFold(config.Environments[k].Name, name)
            /\ \A j \in 1..(k - 1) : ~EqualFold(config.Environments[j].Name, name)]

\* the environment invocation i resolves to uses the removed discovery provider
ResolvesToConsul(i) ==
    /\ SomeEntryMatches(environmentName[i])
    /\ FirstMatch(environmentName[i]).Discovery.Provider = Consul

\* C10: resolving an environment whose discovery provider is "consul" fails
\* with a fatal error that is not Warning-class, and the invocation runs no
\* later stage and issues no collaborator call.
C10_ConsulFatal ==
    \A i \in Invocations :
        (ran[i] # <<>> /\ ResolvesToConsul(i)) =>
            /\ done[i]
            /\ ret[i] # NoError
            /\ ret[i].class = "error"
            /\ Len(ran[i]) = 1
            /\ ran[i][1].stage = "environmentFinder"
            /\ CallsMade(i) = <<>>

\* the resolver has run for a name whose environment uses consul
C10_Witness ==
    \E i \in Invocations :
        /\ ResolvesToConsul(i)
        /\ done[i]
        /\ ret[i].class = "error"

-----------------------------------------------------------------------------
(* C11 *)

\* the UpsertStack calls invocation i has made
Upserts(i) == CallsOf(CallsMade(i), "UpsertStack")

\* the environment invocation i resolves to has no provider configured
ResolvesToUnsetProvider(i) ==
    /\ SomeEntryMatches(environmentName[i])
    /\ FirstMatch(environmentName[i]).Provider = <<>>

\* C11: resolving a name whose environment has an empty provider field leaves a
\* resolved environment with provider ECS-on-instances in the Workflow Context,
\* so no later stage sees an empty provider: the tags of every UpsertStack carry
\* the defaulted provider and the Compute stage dispatches on it.
C11_ProviderDefault ==
    \A i \in Invocations :
        /\ environment[i] # <<>> => environment[i][1].Provider # <<>>
        /\ (ran[i] # <<>> /\ ResolvesToUnsetProvider(i)) =>
              /\ environment[i] # <<>>
              /\ environment[i][1].Provider = <<"e", "c", "s">>
              /\ environment[i][1] =
                     [FirstMatch(environmentName[i]) EXCEPT !.Provider = EnvProviderEcs]
              /\ \A c \in Upserts(i) :
                    /\ c.args.tags.Provider = EnvProviderEcs
                    /\ c.args.tags.Type = StackTypeEnv =>
                          /\ c.args.template = Lit("env-ecs.yml")
                          /\ c.args.params["LaunchType"] = <<"E", "C", "2">>

\* the compute stack was submitted for an environment configured without provider
C11_Witness ==
    \E i \in Invocations :
        /\ ResolvesToUnsetProvider(i)
        /\ \E c \in Upserts(i) : c.args.tags.Type = StackTypeEnv

-----------------------------------------------------------------------------
(* C12 *)

\* the UpsertStack calls of the Compute stage of invocation i
ComputeUpserts(i) == {c \in Upserts(i) : c.args.tags.Type = StackTypeEnv}

\* C12: the compute UpsertStack carries template "env-ecs.yml" and LaunchType
\* "EC2" for ECS-on-instances, template "env-ecs.yml" and LaunchType "FARGATE"
\* for ECS-on-Fargate, and template "env-ec2.yml" and an empty LaunchType for
\* plain EC2.
C12_ProviderDispatch ==
    \A i \in Invocations : \A c \in ComputeUpserts(i) :
        LET provider == environment[i][1].Provider
        IN  /\ provider = EnvProviderEcs =>
                  /\ c.args.template = Lit("env-ecs.yml")
                  /\ c.args.params["LaunchType"] = <<"E", "C", "2">>
            /\ provider = EnvProviderEcsFargate =>
                  /\ c.args.template = Lit("env-ecs.yml")
                  /\ c.args.params["LaunchType"] = <<"F", "A", "R", "G", "A", "T", "E">>
            /\ provider = EnvProviderEc2 =>
                  /\ c.args.template = Lit("env-ec2.yml")
                  /\ c.args.params["LaunchType"] = <<>>

\* the compute stack of a Fargate environment was submitted
C12_Witness ==
    \E i \in Invocations : \E c \in ComputeUpserts(i) :
        /\ environment[i][1].Provider = EnvProviderEcsFargate
        /\ c.args.params["LaunchType"] = <<"F", "A", "R", "G", "A", "T", "E">>

-----------------------------------------------------------------------------
(* C13 *)

\* the one environment of the end-to-end configuration: "staging", provider
\* unset, no VpcTarget, SSH-allow unset, key name unset
EnvStaging == BaseEnv(<<"s", "t", "a", "g", "i", "n", "g">>)

\* the end-to-end invocation: one invocation over a configuration that holds
\* EnvStaging alone, asked for a name in either letter case of its first letter
InitEndToEnd ==
    InitWith({1},
             { [c EXCEPT !.Environments = <<EnvStaging>>] : c \in Configs },
             { <<"s", "t", "a", "g", "i", "n", "g">>,
               <<"S", "t", "a", "g", "i", "n", "g">> })

SpecEndToEnd == InitEndToEnd /\ [][Next]_vars

\* the error a logged call returned; AwaitFinalStatus returns none
CallError(c) ==
    CASE c.op \in {"UpsertCommonRoleset", "UpsertEnvironmentRoleset", "UpsertStack"} -> c.out
      [] c.op = "AwaitFinalStatus" -> NoError
      [] OTHER -> c.out.err

\* every call invocation i made succeeded, every awaited stack ended
\* CREATE_COMPLETE and the availability-zone count was 2
AllSucceeded(i) ==
    \A c \in {CallsMade(i)[k] : k \in 1..Len(CallsMade(i))} :
        /\ CallError(c) = NoError
        /\ c.op = "AwaitFinalStatus" => (c.out # <<>> /\ c.out[1].Status = CREATE_COMPLETE)
        /\ c.op = "CountAZs" => c.out.count = 2

\* C13: end to end, for the configuration with the one environment "staging"
\* (provider, VpcTarget, SSH-allow and key name unset), an availability-zone
\* count of 2 and every collaborator call succeeding with CREATE_COMPLETE, the
\* pipeline returns nil and the Compute stage submits SshAllow = "0.0.0.0/0",
\* LaunchType = "EC2" and ImageId = the value the image lookup returned.
C13_EndToEnd ==
    \A i \in Invocations :
        (done[i] /\ EqualFold(environmentName[i], EnvStaging.Name) /\ AllSucceeded(i)) =>
            /\ ret[i] = NoError
            /\ Len(ran[i]) = 5
            /\ Cardinality(ComputeUpserts(i)) = 1
            /\ \A c \in ComputeUpserts(i) :
                  /\ c.args.params["SshAllow"] = <<"0", ".", "0", ".", "0", ".", "0", "/", "0">>
                  /\ c.args.params["LaunchType"] = <<"E", "C", "2">>
                  /\ \E f \in CallsOf(ran[i][5].calls, "FindLatestImageID") :
                        /\ f.args = <<ecsImagePattern>>
                        /\ f.out.id # <<>>
                        /\ c.args.params["ImageId"] = f.out.id

\* the end-to-end run has returned nil
C13_Witness ==
    \E i \in Invocations :
        /\ config.Environments = <<EnvStaging>>
        /\ done[i] /\ AllSucceeded(i)
        /\ ret[i] = NoError
        /\ ComputeUpserts(i) # {}

-----------------------------------------------------------------------------
(* C14 *)

\* two invocations built by separate NewEnvironmentUpserter calls over the same
\* configuration, for different environments of it
InitConcurrent ==
    /\ InitWith({1, 2},
                { [c EXCEPT !.Environments = <<EnvDev, EnvQa>>] : c \in Configs },
                { <<"D", "E", "V">>, <<"q", "a">> })
    /\ environmentName[1] # environmentName[2]

\* Next interleaves the stages of the two invocations in every order
SpecConcurrent == InitConcurrent /\ [][Next]_vars

\* the step leaves the Workflow Context, the maps and the pipeline position of
\* invocation i alone
OwnStateUnchanged(i) ==
    /\ environment'[i] = environment[i]
    /\ cloudFormationRoleArn'[i] = cloudFormationRoleArn[i]
    /\ ecsStackParams'[i] = ecsStackParams[i]
    /\ elbStackParams'[i] = elbStackParams[i]
    /\ next'[i] = next[i] /\ done'[i] = done[i] /\ ret'[i] = ret[i]

\* what invocation i resolves, reads and submits is what its own name, its own
\* roleset read and its own network stack give
OwnResults(i) ==
    /\ (ran[i] # <<>> /\ ran[i][1].err = NoError) =>
          /\ EqualFold(environmentName[i], FirstMatch(environmentName[i]).Name)
          /\ environment[i] = FinderMatch(FirstMatch(environmentName[i])).environment
    /\ \A c \in Upserts(i) :
          /\ c.args.environment = environment[i][1].Name
          /\ c.args.tags.Environment = environment[i][1].Name
          /\ EqualFold(c.args.environment, environmentName[i])
          /\ c.args.role = cloudFormationRoleArn[i]
          /\ \E g \in CallsOf(CallsMade(i), "GetCommonRoleset") :
                c.args.role = Get(g.out.roleset, "CloudFormationRoleArn")
          /\ c.args.tags.Type \in {StackTypeLoadBalancer, StackTypeEnv} =>
                c.args.params["VpcId"] =
                    VpcStackName(config.Namespace, environment[i][1]) \o Lit("-VpcId")
          /\ c.args.tags.Type = StackTypeEnv =>
                \A k \in DOMAIN c.args.params : c.args.params[k] = ecsStackParams[i][k]

\* C14: two invocations for different environments over the same
\* configuration, their stages interleaved in any order, share no mutable
\* state: a step of one leaves the other's Workflow Context and parameter maps
\* unchanged and never changes the configuration, and the environment each
\* resolves, the role and the parameters it submits are those of its own run.
C14_Independent ==
    /\ [][ /\ config' = config
           /\ environmentName' = environmentName
           /\ \A i \in Invocations : ran'[i] = ran[i] => OwnStateUnchanged(i) ]_vars
    /\ [](\A i \in Invocations : OwnResults(i))

\* both invocations are in the middle of their pipelines, each past a stack
\* upsert of its own, for different environments
C14_Witness ==
    /\ Invocations = {1, 2}
    /\ ~done[1] /\ ~done[2]
    /\ Len(ran[1]) = 3 /\ Len(ran[2]) = 4
    /\ Upserts(1) # {} /\ Upserts(2) # {}
    /\ environment[1][1].Name # environment[2][1].Name

-----------------------------------------------------------------------------
(* C15 *)

\* the history entry of the stage called name, as a set of at most one entry
StageEntry(i, name) == {e \in Entries(i) : e.stage = name}

\* the stage called name has run for invocation i and returned nil
Returned(i, name) == \E e \in StageEntry(i, name) : e.err = NoError

\* the reference to output key of the network stack of invocation i
NetworkRef(i, key) ==
    VpcStackName(config.Namespace, environment[i][1]) \o Lit("-" \o key)

\* C15: no stage runs before its parameter producers: a Load-Balancer stack
\* upsert is submitted with VpcId and ElbSubnetIds as the Network stage wrote
\* them, and a Compute stack upsert with EC2InstanceProfileArn as the Roleset
\* stage wrote it, VpcId and InstanceSubnetIds as the Network stage wrote them
\* and ElbSecurityGroup as the Load-Balancer stage wrote it.
C15_ProducersFirst ==
    \A i \in Invocations : \A c \in Upserts(i) :
        /\ c.args.tags.Type = StackTypeLoadBalancer =>
              /\ Returned(i, "environmentVpcUpserter")
              /\ {"VpcId", "ElbSubnetIds"} \subseteq DOMAIN c.args.params
              /\ c.args.params["VpcId"] = NetworkRef(i, "VpcId")
              /\ c.args.params["ElbSubnetIds"] = NetworkRef(i, "ElbSubnetIds")
        /\ c.args.tags.Type = StackTypeEnv =>
              /\ Returned(i, "environmentRolesetUpserter")
              /\ Returned(i, "environmentVpcUpserter")
              /\ Returned(i, "environmentElbUpserter")
              /\ {"EC2InstanceProfileArn", "VpcId", "InstanceSubnetIds", "ElbSecurityGroup"}
                    \subseteq DOMAIN c.args.params
              /\ \E g \in CallsOf(CallsMade(i), "GetEnvironmentRoleset") :
                    c.args.params["EC2InstanceProfileArn"] =
                        Get(g.out.roleset, "EC2InstanceProfileArn")
              /\ c.args.params["VpcId"] = NetworkRef(i, "VpcId")
              /\ c.args.params["InstanceSubnetIds"] = NetworkRef(i, "InstanceSubnetIds")
              /\ \E e \in StageEntry(i, "environmentElbUpserter") :
                 \E a \in CallsOf(e.calls, "AwaitFinalStatus") :
                    /\ a.out # <<>>
                    /\ c.args.params["ElbSecurityGroup"] =
                          Get(a.out[1].Outputs, "ElbInstanceSecurityGroup")

\* a Load-Balancer and a Compute stack upsert were both submitted
C15_Witness ==
    \E i \in Invocations :
        /\ \E c \in Upserts(i) : c.args.tags.Type = StackTypeLoadBalancer
        /\ ComputeUpserts(i) # {}

-----------------------------------------------------------------------------
(* C16 *)

\* C16: every stack upsert of the Network, Load-Balancer and Compute stages
\* carries as its role the CloudFormationRoleArn entry that the Roleset stage
\* read back from the common roleset after upserting it, and none is submitted
\* before that read.
C16_RoleFromRoleset ==
    \A i \in Invocations :
        LET cs == CallsMade(i)
        IN  \A k \in 1..Len(cs) :
                cs[k].op = "UpsertStack" =>
                    /\ cs[k].args.tags.Type \in
                          {StackTypeVpc, StackTypeTarget, StackTypeLoadBalancer, StackTypeEnv}
                    /\ \E j \in 2..(k - 1) :
                          /\ cs[j].op = "GetCommonRoleset"
                          /\ cs[j].out.err = NoError
                          /\ cs[j - 1].op = "UpsertCommonRoleset"
                          /\ cs[j - 1].out = NoError
                          /\ cs[k].args.role = Get(cs[j].out.roleset, "CloudFormationRoleArn")

\* the stacks of all three stages were submitted under a role that was read
C16_Witness ==
    \E i \in Invocations :
        /\ \A t \in {StackTypeVpc, StackTypeLoadBalancer, StackTypeEnv} :
              \E c \in Upserts(i) : c.args.tags.Type = t /\ c.args.role # <<>>

-----------------------------------------------------------------------------
(* C17 *)

\* the four calls of the Roleset stage
RolesetOps ==
    {"UpsertCommonRoleset", "GetCommonRoleset", "UpsertEnvironmentRoleset",
     "GetEnvironmentRoleset"}

\* C17: when a collaborator call (UpsertCommonRoleset, GetCommonRoleset,
\* UpsertEnvironmentRoleset, GetEnvironmentRoleset, CountAZs,
\* FindLatestImageID, UpsertStack) returns an error, the pipeline returns that
\* same error and the invocation makes no further collaborator call; after a
\* failed roleset call no stack upsert is ever submitted.
C17_DependencyFailure ==
    \A i \in Invocations :
        LET cs == CallsMade(i)
        IN  \A k \in 1..Len(cs) :
                CallError(cs[k]) # NoError =>
                    /\ k = Len(cs)
                    /\ done[i]
                    /\ ret[i] = CallError(cs[k])
                    /\ ran[i][Len(ran[i])].err = CallError(cs[k])
                    /\ cs[k].op \in RolesetOps => Upserts(i) = {}

\* a call of operation op has failed and ended its invocation
C17_FailureOf(op) ==
    \E i \in Invocations :
        \E c \in CallsOf(CallsMade(i), op) : CallError(c) # NoError /\ done[i]

\* a roleset read has failed and ended the invocation
C17_Witness == C17_FailureOf("GetEnvironmentRoleset")

-----------------------------------------------------------------------------
(* C18 *)

\* the step is the Network stage of invocation i
NetworkStep(i) ==
    /\ Len(ran'[i]) = Len(ran[i]) + 1
    /\ ran'[i][Len(ran'[i])].stage = "environmentVpcUpserter"

\* C18: the Network stage writes its four references, VpcId and
\* InstanceSubnetIds into the compute-layer map and VpcId and ElbSubnetIds into
\* the load-balancer-layer map, each "<stack-name>-<OutputKey>", exactly when it
\* returns nil; when it fails, both maps are left as they were at its start.
C18_NetworkFrame ==
    [][ \A i \in Invocations :
          NetworkStep(i) =>
              LET e == ran'[i][Len(ran'[i])]
              IN  IF e.err # NoError
                  THEN /\ ecsStackParams'[i] = ecsStackParams[i]
                       /\ elbStackParams'[i] = elbStackParams[i]
                       /\ "VpcId" \notin DOMAIN ecsStackParams'[i]
                       /\ "VpcId" \notin DOMAIN elbStackParams'[i]
                  ELSE /\ ecsStackParams'[i] =
                             Put(Put(ecsStackParams[i], "VpcId", NetworkRef(i, "VpcId")),
                                 "InstanceSubnetIds", NetworkRef(i, "InstanceSubnetIds"))
                       /\ elbStackParams'[i] =
                             Put(Put(elbStackParams[i], "VpcId", NetworkRef(i, "VpcId")),
                                 "ElbSubnetIds", NetworkRef(i, "ElbSubnetIds")) ]_vars

\* the Network stage has failed after its upsert was submitted
C18_Witness ==
    \E i \in Invocations : \E e \in StageEntry(i, "environmentVpcUpserter") :
        /\ e.err # NoError
        /\ CallsOf(e.calls, "AwaitFinalStatus") # {}
        /\ "VpcId" \notin DOMAIN ecsStackParams[i]

-----------------------------------------------------------------------------
(* C19 *)

\* Every collaborator call returns, so the stage an invocation is at is run to
\* its end: weak fairness on the pipeline's step.
Fairness == WF_vars(Next)

\* one invocation over a configuration of one environment
InitFair ==
    InitWith({1}, {c \in Configs : Len(c.Environments) = 1}, RequestedNames)

SpecFair == InitFair /\ [][Next]_vars /\ Fairness

\* no stage has run twice and no stage has made the same call twice
NoRetry(i) ==
    /\ \A j, k \in 1..Len(ran[i]) : ran[i][j].stage = ran[i][k].stage => j = k
    /\ \A e \in Entries(i) :
          \A j, k \in 1..Len(e.calls) : e.calls[j].op = e.calls[k].op => j = k

\* the invocation has returned nil or an error
Returns(i) == done[i] /\ ret[i].class \in {"nil", "error", "warning"}

\* C19: if every collaborator call returns, every invocation terminates with
\* nil or an error, after at most five stages and thirteen collaborator calls,
\* none of them repeated.
C19_Terminates ==
    /\ [](\A i \in Invocations :
            /\ NoRetry(i)
            /\ Len(ran[i]) <= 5
            /\ Len(CallsMade(i)) <= 13
            /\ done[i] => (ret[i] = NoError <=> Len(ran[i]) = 5 /\ ran[i][5].err = NoError))
    /\ <>[](\A i \in Invocations : Returns(i))

\* an invocation has returned nil after all five stages and ten calls or more
C19_Witness ==
    \E i \in Invocations :
        Returns(i) /\ ret[i] = NoError /\ Len(ran[i]) = 5 /\ Len(CallsMade(i)) >= 10

-----------------------------------------------------------------------------
(* C20 *)

\* the environment invocation i resolved has a provider that is set but is
\* none of the three of the dispatch table
UnknownProvider(i) ==
    /\ environment[i] # <<>>
    /\ environment[i][1].Provider \notin
          {<<>>, EnvProviderEcs, EnvProviderEcsFargate, EnvProviderEc2}

\* the error of the history entry e is one a collaborator returned in it, or
\* the failure of the stack it awaited
NotOnOwnAccount(e) ==
    \/ e.err = NoError
    \/ \E k \in 1..Len(e.calls) : e.err = CallError(e.calls[k])
    \/ \E a \in CallsOf(e.calls, "AwaitFinalStatus") :
          \/ a.out = <<>> /\ e.err = UnableToCreate(a.args[1])
          \/ a.out # <<>> /\ ~ClassifiedSuccess(a.out[1].Status)
                /\ e.err = EndedInFailedStatus(a.out[1])

\* C20: for a resolved environment whose provider is non-empty and none of the
\* three of the dispatch table, the Compute stage fails only when a
\* collaborator or the awaited stack does: it looks the image up with an empty
\* pattern (no image id being configured), and once the lookup succeeded it
\* submits the compute stack upsert with an empty template name and LaunchType
\* set to the empty string.
C20_UnknownProvider ==
    \A i \in Invocations : \A e \in StageEntry(i, "environmentUpserter") :
        UnknownProvider(i) =>
            /\ NotOnOwnAccount(e)
            /\ environment[i][1].Cluster.ImageID = <<>> =>
                  /\ e.calls[1].op = "FindLatestImageID"
                  /\ e.calls[1].args = << <<>> >>
                  /\ e.calls[1].out.err = NoError =>
                        /\ Len(e.calls) >= 2
                        /\ e.calls[2].op = "UpsertStack"
                        /\ e.calls[2].args.params["ImageId"] = e.calls[1].out.id
            /\ \A c \in CallsOf(e.calls, "UpsertStack") :
                  /\ c.args.template = <<>>
                  /\ "LaunchType" \in DOMAIN c.args.params
                  /\ c.args.params["LaunchType"] = <<>>
            /\ "LaunchType" \in DOMAIN ecsStackParams[i]
            /\ ecsStackParams[i]["LaunchType"] = <<>>

\* the compute stack of an environment with an unknown provider was submitted
\* and the pipeline returned nil
C20_Witness ==
    \E i \in Invocations :
        /\ UnknownProvider(i)
        /\ done[i] /\ ret[i] = NoError
        /\ \E c \in ComputeUpserts(i) : c.args.template = <<>>

====
